---- MODULE Spec2Model ----
(***************************************************************************)
(* A model of app/main.py: the RESP codec, the snapshot reader, the shared *)
(* key space and the per-connection command loop.                          *)
(*                                                                         *)
(* Bytes are integers 0..255.  A Python str is a sequence of code points;  *)
(* str.encode()/bytes.decode() are UTF-8 (one byte below 128, two bytes    *)
(* for 128..2047).  A Python value is a record [py, s, n] so that None, a  *)
(* str and an int can be compared without a type clash.                    *)
(***************************************************************************)
EXTENDS Integers, Sequences, FiniteSets, TLC

\* ------------------------------------------------------------------ bytes
CR == 13
LF == 10
CRLF == <<CR, LF>>
TagString == 43
TagBulk == 36
TagArray == 42
TagInteger == 58
Minus == 45
Plus == 43
Zero == 48

\* ------------------------------------------------------- Python values
PyNone == [py |-> "None", s |-> <<>>, n |-> 0]
PyStr(s) == [py |-> "str", s |-> s, n |-> 0]
PyInt(n) == [py |-> "int", s |-> <<>>, n |-> n]

\* Python truthiness of None / str / int
Truthy(v) ==
  CASE v.py = "None" -> FALSE
    [] v.py = "str" -> v.s # <<>>
    [] OTHER -> v.n # 0

RECURSIVE Concat(_)
Concat(ss) == IF ss = <<>> THEN <<>> ELSE Head(ss) \o Concat(Tail(ss))

\* str.encode(): UTF-8 of a sequence of code points (below 2048), the halves
\* of the string encoded one after the other
RECURSIVE Utf8Encode(_)
Utf8Encode(s) ==
  IF s = <<>> THEN <<>>
  ELSE IF Len(s) = 1
    THEN IF s[1] < 128 THEN <<s[1]>> ELSE <<192 + (s[1] \div 64), 128 + (s[1] % 64)>>
  ELSE LET h == Len(s) \div 2
       IN Utf8Encode(SubSeq(s, 1, h)) \o Utf8Encode(SubSeq(s, h + 1, Len(s)))

\* bytes.decode(): [ok, s]; ok = FALSE stands for UnicodeDecodeError
RECURSIVE Utf8Decode(_)
Utf8Decode(b) ==
  IF b = <<>> THEN [ok |-> TRUE, s |-> <<>>]
  ELSE IF b[1] < 128
    THEN LET r == Utf8Decode(Tail(b))
         IN [ok |-> r.ok, s |-> <<b[1]>> \o r.s]
  ELSE IF b[1] >= 194 /\ b[1] < 224 /\ Len(b) >= 2 /\ b[2] >= 128 /\ b[2] < 192
    THEN LET r == Utf8Decode(SubSeq(b, 3, Len(b)))
         IN [ok |-> r.ok, s |-> <<(b[1] - 192) * 64 + (b[2] - 128)>> \o r.s]
  ELSE [ok |-> FALSE, s |-> <<>>]

\* str(n) for an int, as code points
RECURSIVE Digits(_)
Digits(n) == IF n < 10 THEN <<Zero + n>> ELSE Digits(n \div 10) \o <<Zero + (n % 10)>>

IntToStr(n) == IF n < 0 THEN <<Minus>> \o Digits(-n) ELSE Digits(n)

IsSpace(c) == c \in {9, 10, 11, 12, 13, 32}
IsDigit(c) == c >= Zero /\ c <= Zero + 9

RECURSIVE LStrip(_)
LStrip(s) == IF s # <<>> /\ IsSpace(Head(s)) THEN LStrip(Tail(s)) ELSE s

RECURSIVE RStrip(_)
RStrip(s) == IF s # <<>> /\ IsSpace(s[Len(s)]) THEN RStrip(SubSeq(s, 1, Len(s) - 1)) ELSE s

RECURSIVE DigitsValue(_)
DigitsValue(s) ==
  IF s = <<>> THEN 0 ELSE DigitsValue(SubSeq(s, 1, Len(s) - 1)) * 10 + (s[Len(s)] - Zero)

\* int(s) for a str: [ok, n]; ok = FALSE stands for ValueError
ParseInt(s) ==
  LET t == RStrip(LStrip(s))
      signed == t # <<>> /\ t[1] \in {Minus, Plus}
      d == IF signed THEN Tail(t) ELSE t
  IN IF d # <<>> /\ \A i \in 1..Len(d) : IsDigit(d[i])
       THEN [ok |-> TRUE, n |-> IF signed /\ t[1] = Minus THEN 0 - DigitsValue(d) ELSE DigitsValue(d)]
       ELSE [ok |-> FALSE, n |-> 0]

\* ------------------------------------------------------------- RESP codec
RespStringObj(v) == [cls |-> "RespString", value |-> v, items |-> <<>>]
RespIntegerObj(v) == [cls |-> "RespInteger", value |-> v, items |-> <<>>]
RespBulkStringObj(v) == [cls |-> "RespBulkString", value |-> v, items |-> <<>>]
RespArrayObj(items) == [cls |-> "RespArray", value |-> PyNone, items |-> items]

RECURSIVE JoinCRLF(_)
JoinCRLF(chunks) ==
  IF chunks = <<>> THEN <<>>
  ELSE IF Len(chunks) = 1 THEN chunks[1]
  ELSE chunks[1] \o CRLF \o JoinCRLF(Tail(chunks))

_write_chunks(chunks, prefix, suffix) == prefix \o JoinCRLF(chunks) \o suffix

RespString_encode(self) == _write_chunks(<<Utf8Encode(self.value.s)>>, <<TagString>>, CRLF)

RespInteger_encode(self) == _write_chunks(<<IntToStr(self.value.n)>>, <<TagInteger>>, CRLF)

\* the length written in front of a bulk payload
BulkLen(value, data) == Len(data)

RespBulkString_encode(self) ==
  IF Truthy(self.value)
    THEN LET data == Utf8Encode(self.value.s)
         IN _write_chunks(<<IntToStr(BulkLen(self.value.s, data)), data>>, <<TagBulk>>, CRLF)
    ELSE <<TagBulk, Minus, Zero + 1, CR, LF>>

RECURSIVE encode(_)
RECURSIVE EncodeItems(_)
EncodeItems(items) ==
  IF items = <<>> THEN <<>> ELSE encode(Head(items)) \o EncodeItems(Tail(items))

RespArray_encode(self) ==
  _write_chunks(<<IntToStr(Len(self.items)), EncodeItems(self.items)>>, <<TagArray>>, <<>>)

encode(v) ==
  CASE v.cls = "RespString" -> RespString_encode(v)
    [] v.cls = "RespInteger" -> RespInteger_encode(v)
    [] v.cls = "RespBulkString" -> RespBulkString_encode(v)
    [] OTHER -> RespArray_encode(v)

\* A decoding result: ok = FALSE stands for the exception err
Ok(val, off) == [ok |-> TRUE, err |-> "", val |-> val, off |-> off]
Err(e) == [ok |-> FALSE, err |-> e, val |-> RespStringObj(PyNone), off |-> 0]
ChunkOk(b, off) == [ok |-> TRUE, err |-> "", b |-> b, off |-> off]
ChunkErr(e) == [ok |-> FALSE, err |-> e, b |-> <<>>, off |-> 0]

\* offsets are 0-based as in the source; data[offset] is data[offset + 1] here.
\* The while loop of _parse_chunk: the offset it stops at, or -1 when
\* data[offset] or data[offset + 1] is past the end (IndexError)
RECURSIVE ChunkEnd(_, _)
ChunkEnd(data, offset) ==
  IF offset >= Len(data) THEN -1
  ELSE IF data[offset + 1] # CR THEN ChunkEnd(data, offset + 1)
  ELSE IF offset + 1 >= Len(data) THEN -1
  ELSE IF data[offset + 2] = LF THEN offset
  ELSE ChunkEnd(data, offset + 1)

_parse_chunk(data, offset) ==
  LET end == ChunkEnd(data, offset)
  IN IF end < 0 THEN ChunkErr("IndexError")
     ELSE ChunkOk(SubSeq(data, offset + 1, end), end + 2)

RespString_decode(data, offset) ==
  LET c == _parse_chunk(data, offset + 1)
      u == Utf8Decode(c.b)
  IN IF ~c.ok THEN Err(c.err)
     ELSE IF ~u.ok THEN Err("UnicodeDecodeError")
     ELSE Ok(RespStringObj(PyStr(u.s)), c.off)

\* the class RespInteger.decode wraps the parsed int in
IntegerDecodeClass == "RespString"

RespInteger_decode(data, offset) ==
  LET c == _parse_chunk(data, offset + 1)
      u == Utf8Decode(c.b)
      p == ParseInt(u.s)
  IN IF ~c.ok THEN Err(c.err)
     ELSE IF ~u.ok THEN Err("UnicodeDecodeError")
     ELSE IF ~p.ok THEN Err("ValueError")
     ELSE Ok([cls |-> IntegerDecodeClass, value |-> PyInt(p.n), items |-> <<>>], c.off)

RespBulkString_decode(data, offset) ==
  LET l == _parse_chunk(data, offset + 1)
      c == _parse_chunk(data, l.off)
      u == Utf8Decode(c.b)
  IN IF ~l.ok THEN Err(l.err)
     ELSE IF ~c.ok THEN Err(c.err)
     ELSE IF ~u.ok THEN Err("UnicodeDecodeError")
     ELSE Ok(RespBulkStringObj(PyStr(u.s)), c.off)

RECURSIVE decode(_, _)
RECURSIVE DecodeItems(_, _, _, _)
\* the loop of RespArray.decode: n items still to decode
DecodeItems(data, offset, n, items) ==
  IF n <= 0 THEN Ok(RespArrayObj(items), offset)
  ELSE LET r == decode(data, offset)
       IN IF ~r.ok THEN r ELSE DecodeItems(data, r.off, n - 1, Append(items, r.val))

RespArray_decode(data, offset) ==
  LET bl == _parse_chunk(data, offset + 1)
      u == Utf8Decode(bl.b)
      l == ParseInt(u.s)
  IN IF ~bl.ok THEN Err(bl.err)
     ELSE IF ~u.ok THEN Err("UnicodeDecodeError")
     ELSE IF ~l.ok THEN Err("ValueError")
     ELSE DecodeItems(data, bl.off, l.n, <<>>)

decode(data, offset) ==
  IF offset >= Len(data) THEN Err("IndexError")
  ELSE CASE data[offset + 1] = TagString -> RespString_decode(data, offset)
         [] data[offset + 1] = TagBulk -> RespBulkString_decode(data, offset)
         [] data[offset + 1] = TagArray -> RespArray_decode(data, offset)
         [] data[offset + 1] = TagInteger -> RespInteger_decode(data, offset)
         [] OTHER -> Err("KeyError")

\* -------------------------------------------------------- snapshot reader
OpAux == 250
OpSelectDB == 254
OpResizeDB == 251
OpExpireMs == 252
OpExpireSec == 253
OpEOF == 255
Magic == <<82, 69, 68, 73, 83>>

Min(a, b) == IF a < b THEN a ELSE b

\* data[a:b] of Python: never raises, shortened at the end of data
Slice(data, a, b) == SubSeq(data, a + 1, Min(b, Len(data)))

RECURSIVE FromLittle(_)
FromLittle(b) == IF b = <<>> THEN 0 ELSE b[1] + 256 * FromLittle(Tail(b))

RECURSIVE FromBig(_)
FromBig(b) == IF b = <<>> THEN 0 ELSE FromBig(SubSeq(b, 1, Len(b) - 1)) * 256 + b[Len(b)]

\* [ok, err, off]
_assert_section(data, offset, value) ==
  IF offset >= Len(data) THEN [ok |-> FALSE, err |-> "IndexError", off |-> 0]
  ELSE IF data[offset + 1] # value THEN [ok |-> FALSE, err |-> "AssertionError", off |-> 0]
  ELSE [ok |-> TRUE, err |-> "", off |-> offset + 1]

SizeRes(arity, val, off, ext) == [ok |-> TRUE, err |-> "", arity |-> arity, val |-> val, off |-> off, ext |-> ext]
SizeErr(e) == [ok |-> FALSE, err |-> e, arity |-> 0, val |-> 0, off |-> 0, ext |-> FALSE]

\* the number of values the 14-bit branch of _decode_size returns
Arity14 == 2

\* arity is the length of the returned tuple
_decode_size(data, offset) ==
  IF offset >= Len(data) THEN SizeErr("IndexError")
  ELSE LET b == data[offset + 1]
           flag == b \div 64
       IN CASE flag = 0 -> SizeRes(3, b % 64, offset + 1, FALSE)
            [] flag = 1 ->
                 IF offset + 1 >= Len(data) THEN SizeErr("IndexError")
                 ELSE SizeRes(Arity14, (b % 64) * 256 + data[offset + 2], offset + 2, FALSE)
            [] flag = 2 -> SizeRes(3, FromBig(Slice(data, offset + 1, offset + 5)), offset + 5, FALSE)
            [] OTHER -> SizeRes(3, b, offset + 1, TRUE)

\* a caller's "(a, b, c) = _decode_size(...)": ValueError unless three values
Unpack3(r) == IF r.ok /\ r.arity # 3 THEN SizeErr("ValueError") ELSE r

StrRes(s, off) == [ok |-> TRUE, err |-> "", s |-> s, off |-> off]
StrErr(e) == [ok |-> FALSE, err |-> e, s |-> <<>>, off |-> 0]

\* the integer a special-encoded string holds
SpecialInt(b) == FromLittle(b)

_decode_string(data, offset) ==
  LET r == Unpack3(_decode_size(data, offset))
  IN IF ~r.ok THEN StrErr(r.err)
     ELSE IF r.ext
       THEN IF r.val = 195 THEN StrErr("AssertionError")
            ELSE LET l == CASE r.val = 192 -> 1
                            [] r.val = 193 -> 2
                            [] r.val = 194 -> 4
                            [] OTHER -> r.val
                 IN StrRes(IntToStr(SpecialInt(Slice(data, r.off, r.off + l))), r.off + l)
       ELSE LET u == Utf8Decode(Slice(data, r.off, r.off + r.val))
            IN IF ~u.ok THEN StrErr("UnicodeDecodeError") ELSE StrRes(u.s, r.off + r.val)

\* [ok, err, ts, off]
_decode_timestamp(data, offset) ==
  IF offset >= Len(data) THEN [ok |-> FALSE, err |-> "IndexError", ts |-> 0, off |-> 0]
  ELSE IF data[offset + 1] = OpExpireMs
    THEN [ok |-> TRUE, err |-> "", ts |-> FromLittle(Slice(data, offset + 1, offset + 9)), off |-> offset + 9]
  ELSE IF data[offset + 1] = OpExpireSec
    THEN [ok |-> TRUE, err |-> "", ts |-> FromLittle(Slice(data, offset + 1, offset + 5)) * 1000, off |-> offset + 5]
  ELSE [ok |-> TRUE, err |-> "", ts |-> 0, off |-> offset]

RECURSIVE _parse_fragment_until(_, _, _)
_parse_fragment_until(data, offset, value) ==
  IF offset >= Len(data) THEN ChunkErr("IndexError")
  ELSE IF data[offset + 1] = value THEN ChunkOk(<<>>, offset + 1)
  ELSE LET r == _parse_fragment_until(data, offset + 1, value)
       IN IF r.ok THEN ChunkOk(<<data[offset + 1]>> \o r.b, r.off) ELSE r

\* ---------------------------------------------------------------- key space
\* a dict str -> (value, expiration) in insertion order
Entry(k, v, e) == [key |-> k, value |-> v, exp |-> e]

HasKey(items, k) == \E i \in 1..Len(items) : items[i].key = k

DictGet(items, k) == items[CHOOSE i \in 1..Len(items) : items[i].key = k]

\* items[k] = (v, e) done as two stores: the value, then the expiry only for a new key
DictSetTorn(items, k, v, e) ==
  IF HasKey(items, k)
    THEN [i \in 1..Len(items) |-> IF items[i].key = k THEN Entry(k, v, items[i].exp) ELSE items[i]]
    ELSE Append(items, Entry(k, v, e))

\* items[k] = (v, e)
DictSet(items, k, v, e) ==
  IF HasKey(items, k)
    THEN [i \in 1..Len(items) |-> IF items[i].key = k THEN Entry(k, v, e) ELSE items[i]]
    ELSE Append(items, Entry(k, v, e))

DictKeys(items) == [i \in 1..Len(items) |-> items[i].key]

DbRes(items) == [ok |-> TRUE, err |-> "", items |-> items]
DbErr(e) == [ok |-> FALSE, err |-> e, items |-> <<>>]

\* the loop "for _ in range(sizekv)" of from_bytes and the final 0xFF check
RECURSIVE ReadEntries(_, _, _, _)
ReadEntries(data, offset, n, items) ==
  IF n <= 0
    THEN IF offset >= Len(data) THEN DbErr("IndexError")
         ELSE IF data[offset + 1] # OpEOF THEN DbErr("AssertionError")
         ELSE DbRes(items)
    ELSE LET t == _decode_timestamp(data, offset)
             k == _decode_string(data, t.off + 1)
             v == _decode_string(data, k.off)
         IN IF ~t.ok THEN DbErr(t.err)
            ELSE IF t.off >= Len(data) THEN DbErr("IndexError")
            ELSE IF data[t.off + 1] # 0 THEN DbErr("AssertionError")
            ELSE IF ~k.ok THEN DbErr(k.err)
            ELSE IF ~v.ok THEN DbErr(v.err)
            ELSE ReadEntries(data, v.off, n - 1, DictSet(items, PyStr(k.s), PyStr(v.s), PyInt(t.ts)))

RedisDatabase_from_bytes(data) ==
  IF Slice(data, 0, 5) # Magic THEN DbErr("AssertionError")
  ELSE LET rdbvb == _parse_fragment_until(data, 5, OpAux)
           attrs == _parse_fragment_until(data, rdbvb.off, OpSelectDB)
           idx == Unpack3(_decode_size(data, attrs.off))
           sect == _assert_section(data, idx.off, OpResizeDB)
           sizekv == Unpack3(_decode_size(data, sect.off))
           sizeexp == Unpack3(_decode_size(data, sizekv.off))
           r == ReadEntries(data, sizeexp.off, sizekv.val, <<>>)
       IN IF ~rdbvb.ok THEN DbErr(rdbvb.err)
          ELSE IF ~attrs.ok THEN DbErr(attrs.err)
          ELSE IF ~idx.ok THEN DbErr(idx.err)
          ELSE IF ~sect.ok THEN DbErr(sect.err)
          ELSE IF ~sizekv.ok THEN DbErr(sizekv.err)
          ELSE IF ~sizeexp.ok THEN DbErr(sizeexp.err)
          ELSE IF ~r.ok THEN r
          ELSE IF ~Utf8Decode(rdbvb.b).ok THEN DbErr("UnicodeDecodeError")
          ELSE r

\* ----------------------------------------------------------------- words
W_PING == <<80, 73, 78, 71>>
W_PONG == <<80, 79, 78, 71>>
W_ECHO == <<69, 67, 72, 79>>
W_SET == <<83, 69, 84>>
W_GET == <<71, 69, 84>>
W_CONFIG == <<67, 79, 78, 70, 73, 71>>
W_KEYS == <<75, 69, 89, 83>>
W_INFO == <<73, 78, 70, 79>>
W_REPLICATION == <<82, 69, 80, 76, 73, 67, 65, 84, 73, 79, 78>>
W_OK == <<79, 75>>
W_dir == <<100, 105, 114>>
W_dbfilename == <<100, 98, 102, 105, 108, 101, 110, 97, 109, 101>>
W_PX == <<80, 88>>
W_star == <<42>>
W_FOO == <<70, 79, 79>>
W_get == <<103, 101, 116>>
W_role == <<114, 111, 108, 101, 58>>
W_master == <<109, 97, 115, 116, 101, 114>>
W_slave == <<115, 108, 97, 118, 101>>
W_master_replid == <<13, 10, 109, 97, 115, 116, 101, 114, 95, 114, 101, 112, 108, 105, 100, 58>>
W_master_repl_offset == <<13, 10, 109, 97, 115, 116, 101, 114, 95, 114, 101, 112, 108, 95, 111, 102, 102, 115, 101, 116, 58>>
W_tmp == <<47, 116, 109, 112>>
W_dump == <<100, 117, 109, 112, 46, 114, 100, 98>>
W_default == <<100, 101, 102, 97, 117, 108, 116>>

\* str.upper() on ASCII
Upper(s) == [i \in 1..Len(s) |-> IF s[i] >= 97 /\ s[i] <= 122 THEN s[i] - 32 ELSE s[i]]

\* ---------------------------------------------------------- replication
Replication(role, replid) == [role |-> role, master_replid |-> replid, master_repl_offset |-> 0]

RedisReplication_encode(self) ==
  LET payload == W_role \o (IF self.role = "MASTER" THEN W_master ELSE W_slave)
                 \o (IF self.role = "MASTER"
                       THEN W_master_replid \o self.master_replid
                            \o W_master_repl_offset \o IntToStr(self.master_repl_offset)
                       ELSE <<>>)
  IN RespBulkString_encode(RespBulkStringObj(PyStr(payload)))

\* ------------------------------------------------------ command handlers
\* The result of a handler: the exception raised ("" for none), the key
\* space when it returns or raises, the bytes written and, for GET, the
\* entry it read.
NoEntry == Entry(PyNone, PyNone, PyNone)
HRes(db, out) == [err |-> "", db |-> db, out |-> out, obs |-> NoEntry]
HErr(e, db) == [err |-> e, db |-> db, out |-> <<>>, obs |-> NoEntry]

\* the exception of evaluating dt.items[i].value, "" for none
AccessErr(dt, i) ==
  IF dt.cls # "RespArray" THEN "AttributeError"
  ELSE IF Len(dt.items) <= i THEN "IndexError"
  ELSE IF dt.items[i + 1].cls = "RespArray" THEN "AttributeError"
  ELSE ""

ItemValue(dt, i) == dt.items[i + 1].value

\* int(x) of a str or an int
PyIntOf(v) == IF v.py = "int" THEN [ok |-> TRUE, n |-> v.n] ELSE ParseInt(v.s)

ping_cmd(dt, db) == HRes(db, RespBulkString_encode(RespBulkStringObj(PyStr(W_PONG))))

echo_cmd(dt, db) ==
  IF dt.cls # "RespArray" THEN HErr("AttributeError", db)
  ELSE IF Len(dt.items) <= 1 THEN HErr("IndexError", db)
  ELSE HRes(db, encode(dt.items[2]))

\* set_cmd storing the value before it evaluates the PX argument
set_cmd_StoreFirst(dt, db, now) ==
  IF dt.cls # "RespArray" THEN HErr("AttributeError", db)
  ELSE IF AccessErr(dt, 2) # "" THEN HErr(AccessErr(dt, 2), db)
  ELSE IF AccessErr(dt, 1) # "" THEN HErr(AccessErr(dt, 1), db)
  ELSE LET stored == DictSet(db, ItemValue(dt, 1), ItemValue(dt, 2), PyNone)
       IN IF Len(dt.items) = 3 THEN HRes(stored, RespString_encode(RespStringObj(PyStr(W_OK))))
          ELSE IF AccessErr(dt, 4) # "" THEN HErr(AccessErr(dt, 4), stored)
          ELSE IF ~PyIntOf(ItemValue(dt, 4)).ok THEN HErr("ValueError", stored)
          ELSE HRes(DictSet(db, ItemValue(dt, 1), ItemValue(dt, 2),
                            PyInt(now + PyIntOf(ItemValue(dt, 4)).n)),
                    RespString_encode(RespStringObj(PyStr(W_OK))))

set_cmd(dt, db, now) ==
  IF dt.cls # "RespArray" THEN HErr("AttributeError", db)
  ELSE IF Len(dt.items) # 3 /\ AccessErr(dt, 4) # "" THEN HErr(AccessErr(dt, 4), db)
  ELSE IF Len(dt.items) # 3 /\ ~PyIntOf(ItemValue(dt, 4)).ok THEN HErr("ValueError", db)
  ELSE IF AccessErr(dt, 2) # "" THEN HErr(AccessErr(dt, 2), db)
  ELSE IF AccessErr(dt, 1) # "" THEN HErr(AccessErr(dt, 1), db)
  ELSE LET expiration == IF Len(dt.items) = 3 THEN PyNone
                         ELSE PyInt(now + PyIntOf(ItemValue(dt, 4)).n)
       IN HRes(DictSet(db, ItemValue(dt, 1), ItemValue(dt, 2), expiration),
               RespString_encode(RespStringObj(PyStr(W_OK))))

\* "v[1] and v[1] < now"
Expired(exp, now) == Truthy(exp) /\ exp.n < now

\* get_cmd deleting the key it finds expired
get_cmd_Evict(dt, db, now) ==
  IF AccessErr(dt, 1) # "" THEN HErr(AccessErr(dt, 1), db)
  ELSE LET k == ItemValue(dt, 1)
       IN IF ~HasKey(db, k)
            THEN HRes(db, RespBulkString_encode(RespBulkStringObj(PyNone)))
          ELSE LET v == DictGet(db, k)
               IN IF Expired(v.exp, now)
                    THEN [HRes(SelectSeq(db, LAMBDA e : e.key # k),
                               RespBulkString_encode(RespBulkStringObj(PyNone))) EXCEPT !.obs = v]
                    ELSE [HRes(db, RespBulkString_encode(RespBulkStringObj(v.value))) EXCEPT !.obs = v]

get_cmd(dt, db, now) ==
  IF AccessErr(dt, 1) # "" THEN HErr(AccessErr(dt, 1), db)
  ELSE LET k == ItemValue(dt, 1)
       IN IF ~HasKey(db, k)
            THEN HRes(db, RespBulkString_encode(RespBulkStringObj(PyNone)))
          ELSE LET v == DictGet(db, k)
               IN [HRes(db, IF Expired(v.exp, now)
                              THEN RespBulkString_encode(RespBulkStringObj(PyNone))
                              ELSE RespBulkString_encode(RespBulkStringObj(v.value)))
                     EXCEPT !.obs = v]

config_cmd(dt, db, dir) ==
  IF AccessErr(dt, 1) # "" THEN HErr(AccessErr(dt, 1), db)
  ELSE IF ItemValue(dt, 1).py # "str" THEN HErr("AttributeError", db)
  ELSE IF Upper(ItemValue(dt, 1).s) # W_GET THEN HErr("KeyError", db)
  ELSE IF AccessErr(dt, 2) # "" THEN HErr(AccessErr(dt, 2), db)
  ELSE IF ItemValue(dt, 2) = PyStr(W_dir)
    THEN HRes(db, RespArray_encode(RespArrayObj(<<dt.items[3], RespBulkStringObj(dir)>>)))
  ELSE HErr("AttributeError", db)   \* STATE.dbfilename: InstanceState has no such attribute

keys_cmd(dt, db) ==
  LET keys == DictKeys(db)
  IN HRes(db, RespArray_encode(RespArrayObj([i \in 1..Len(keys) |-> RespBulkStringObj(keys[i])])))

info_cmd(dt, db, replication) ==
  IF AccessErr(dt, 1) # "" THEN HErr(AccessErr(dt, 1), db)
  ELSE IF ItemValue(dt, 1).py # "str" THEN HErr("AttributeError", db)
  ELSE IF Upper(ItemValue(dt, 1).s) # W_REPLICATION THEN HErr("KeyError", db)
  ELSE HRes(db, RedisReplication_encode(replication))

\* cmds[verb](dt, writer)
cmds(verb, dt, db, now, dir, replication) ==
  CASE verb = W_PING -> ping_cmd(dt, db)
    [] verb = W_ECHO -> echo_cmd(dt, db)
    [] verb = W_SET -> set_cmd(dt, db, now)
    [] verb = W_GET -> get_cmd(dt, db, now)
    [] verb = W_CONFIG -> config_cmd(dt, db, dir)
    [] verb = W_KEYS -> keys_cmd(dt, db)
    [] verb = W_INFO -> info_cmd(dt, db, replication)
    [] OTHER -> HErr("KeyError", db)

\* the body of the loop of client_connected after the read
Dispatch(dt, db, now, dir, replication) ==
  IF dt.cls = "RespBulkString"
    THEN IF dt.value.py # "str" THEN HErr("AttributeError", db)
         ELSE cmds(Upper(dt.value.s), dt, db, now, dir, replication)
  ELSE IF dt.cls = "RespArray"
    THEN IF Len(dt.items) = 0 THEN HErr("IndexError", db)
         ELSE IF dt.items[1].cls = "RespArray" \/ dt.items[1].value.py # "str"
           THEN HErr("AttributeError", db)
         ELSE cmds(Upper(dt.items[1].value.s), dt, db, now, dir, replication)
  ELSE HRes(db, <<>>)

\* ------------------------------------------------------ codec test values
MaxLen == 2
MaxInt == 2
CodePoints == {97, 233}
PayloadChars == {97, 233, CR, LF}

StrsUpTo(alphabet, n) == UNION {[1..m -> alphabet] : m \in 0..n}

LeafValues ==
  {RespStringObj(PyStr(s)) : s \in StrsUpTo(CodePoints, MaxLen)}
  \cup {RespIntegerObj(PyInt(i)) : i \in (0 - MaxInt)..MaxInt}
  \cup {RespBulkStringObj(PyStr(s)) : s \in StrsUpTo(PayloadChars, MaxLen)}
  \cup {RespBulkStringObj(PyNone)}

SmallLeaves ==
  {RespStringObj(PyStr(<<97>>)), RespIntegerObj(PyInt(1)),
   RespBulkStringObj(PyStr(<<97>>)), RespBulkStringObj(PyStr(<<233, 97>>))}

FlatArrays == {RespArrayObj(items) : items \in StrsUpTo(SmallLeaves, MaxLen)}

NestedArrays ==
  {RespArrayObj(items) : items \in StrsUpTo({RespArrayObj(<<>>), RespArrayObj(<<RespBulkStringObj(PyStr(<<97>>))>>),
                                            RespBulkStringObj(PyStr(<<97>>))}, MaxLen)}

RespValues == LeafValues \cup FlatArrays \cup NestedArrays

\* ------------------------------------------------ files, clients, bounds
NumConns == 2
MaxReqs == 3
MaxTime == 3
MaxSplit == 1
ReadSize == 512
Conns == 1..NumConns

K_k == <<107>>
K_m == <<109>>
V_a == <<97>>
V_b == <<98>>

RdbHeader == Magic \o <<48, 48, 48, 51, OpAux, 1, 65, 1, 66, OpSelectDB, 0, OpResizeDB>>

\* m -> b without expiry, k -> p expiring at 2 ms
FileMango ==
  RdbHeader \o <<2, 1>> \o <<0, 1, 109, 1, 98>>
  \o <<OpExpireMs, 2, 0, 0, 0, 0, 0, 0, 0, 0, 1, 107, 1, 112>> \o <<OpEOF>>

\* one entry whose key length is written in the 14-bit form
File14Bit == RdbHeader \o <<1, 0>> \o <<0, 64, 1, 109, 1, 98>> \o <<OpEOF>>

ReplIdA == [i \in 1..40 |-> 65]

\* ------------------------------------------------- snapshot files as inputs
\* n in w bytes, least and most significant byte first
RECURSIVE ToLittle(_, _)
ToLittle(n, w) == IF w = 0 THEN <<>> ELSE <<n % 256>> \o ToLittle(n \div 256, w - 1)

RECURSIVE ToBig(_, _)
ToBig(n, w) == IF w = 0 THEN <<>> ELSE ToBig(n \div 256, w - 1) \o <<n % 256>>

\* a size in the file, in the 6-bit, 14-bit or 32-bit form
SizeBytes(form, n) ==
  CASE form = "len6" -> <<n>>
    [] form = "len14" -> <<64 + (n \div 256), n % 256>>
    [] OTHER -> <<128>> \o ToBig(n, 4)

\* a string of the file: length-prefixed bytes s, or an integer whose w bytes
\* are the little-endian of n (0 <= n < 256^w)
StrLen(form, s) == [form |-> form, s |-> s, n |-> 0, w |-> 0]
StrInt(w, n) == [form |-> "int", s |-> <<>>, n |-> n, w |-> w]

StrBytes(x) ==
  IF x.form = "int"
    THEN <<(CASE x.w = 1 -> 192 [] x.w = 2 -> 193 [] OTHER -> 194)>> \o ToLittle(x.n, x.w)
    ELSE SizeBytes(x.form, Len(x.s)) \o x.s

\* an entry of the file: marker is 0 (no expiry), OpExpireMs or OpExpireSec
SnapEntry(key, value, marker, ts) == [key |-> key, value |-> value, marker |-> marker, ts |-> ts]

EntryBytes(e) ==
  (CASE e.marker = OpExpireMs -> <<OpExpireMs>> \o ToLittle(e.ts, 8)
     [] e.marker = OpExpireSec -> <<OpExpireSec>> \o ToLittle(e.ts, 4)
     [] OTHER -> <<>>)
  \o <<0>> \o StrBytes(e.key) \o StrBytes(e.value)

\* a file: header, table sizes (the first in the form `table`), entries, 0xFF
RdbFile(f) ==
  RdbHeader \o SizeBytes(f.table, Len(f.entries))
  \o SizeBytes("len6", Cardinality({i \in 1..Len(f.entries) : f.entries[i].marker # 0}))
  \o Concat([i \in 1..Len(f.entries) |-> EntryBytes(f.entries[i])]) \o <<OpEOF>>

SnapKeys == {StrLen("len6", K_k), StrLen("len14", K_k)}
SnapValues ==
  {StrLen("len6", V_b), StrLen("len14", V_b), StrLen("len32", V_b),
   StrInt(1, 5), StrInt(1, 255), StrInt(2, 65535), StrInt(4, 7)}
SnapExpiries == {<<0, 0>>, <<OpExpireMs, 0>>, <<OpExpireMs, 2>>, <<OpExpireSec, 0>>, <<OpExpireSec, 2>>}
SnapFiles ==
  {[table |-> t, entries |-> <<SnapEntry(k, v, x[1], x[2])>>] :
     t \in {"len6", "len14"}, k \in SnapKeys, v \in SnapValues, x \in SnapExpiries}

\* the wall times, unix-millis, at which a GET is served after a load
GetTimes == {1, 2, 3, 1999, 2000, 2001}

\* the runs: a command line, the file found at dir/dbfilename (<<>>: no
\* such file) and the requests the clients draw from
NoArgs(w) == [dir |-> PyNone, dbfilename |-> PyNone, file |-> <<>>, replicaof |-> FALSE, workload |-> w]
Replica(w) == [dir |-> PyNone, dbfilename |-> PyNone, file |-> <<>>, replicaof |-> TRUE, workload |-> w]
WithFile(f, w) == [dir |-> PyStr(W_tmp), dbfilename |-> PyStr(W_dump), file |-> f, replicaof |-> FALSE, workload |-> w]

Startups ==
  { NoArgs("kv"), NoArgs("misc"), Replica("misc"), NoArgs("errors"), NoArgs("wire"),
    WithFile(FileMango, "snap"), WithFile(FileMango, "admin"), WithFile(File14Bit, "snap") }

\* the encoding of a non-null bulk string required by the wire format
WireBulk(b) == <<TagBulk>> \o IntToStr(Len(b)) \o CRLF \o b \o CRLF

\* what a client writes: an array of bulk strings
WireArray(words) ==
  <<TagArray>> \o IntToStr(Len(words)) \o CRLF \o Concat([i \in 1..Len(words) |-> WireBulk(words[i])])

\* the requests the clients of one run draw from
KvRequests ==
  { WireArray(<<W_SET, K_k, V_a>>),
    WireArray(<<W_SET, K_k, V_b, W_PX, <<49>> >>),
    WireArray(<<W_GET, K_k>>) }

SnapRequests ==
  { WireArray(<<W_SET, K_k, <<>> >>),
    WireArray(<<W_GET, K_k>>),
    WireArray(<<W_get, K_m>>) }

AdminRequests ==
  { WireArray(<<W_KEYS, W_star>>),
    WireArray(<<W_CONFIG, W_GET, W_dir>>),
    WireArray(<<W_CONFIG, W_GET, W_dbfilename>>) }

MiscRequests ==
  { WireArray(<<W_PING>>),
    WireArray(<<W_ECHO, V_a>>),
    WireArray(<<W_INFO, W_REPLICATION>>) }

ErrorRequests ==
  { WireArray(<<W_SET, K_k, V_a>>),
    WireArray(<<W_SET, K_k, V_a, W_PX, <<49>>, V_a>>),
    WireArray(<<W_SET, K_k, V_a, W_PX>>) }

WireRequests ==
  { WireArray(<<W_FOO>>),
    <<TagString>> \o W_PING \o CRLF,
    <<33, CR, LF>> }

RequestsOf(w) ==
  CASE w = "kv" -> KvRequests
    [] w = "snap" -> SnapRequests
    [] w = "admin" -> AdminRequests
    [] w = "misc" -> MiscRequests
    [] w = "errors" -> ErrorRequests
    [] OTHER -> WireRequests

\* the runs whose clients send only well-formed requests
WellFormedWorkloads == {"kv", "snap", "admin", "misc"}

\* the prefixes of the pending bytes one read may return: up to each request
\* boundary, and up to MaxSplit bytes into the request after it
RECURSIVE Boundaries(_, _)
Boundaries(lens, at) ==
  IF lens = <<>> THEN {at} ELSE {at} \cup Boundaries(Tail(lens), at + lens[1])

ReadSizes(lens, avail) ==
  {n \in UNION {b..(b + MaxSplit) : b \in Boundaries(lens, 0)} : n >= 1 /\ n <= Min(ReadSize, avail)}

\* lens with the first n bytes removed, a request at a time
RECURSIVE DropBytes(_, _)
DropBytes(lens, n) ==
  IF n = 0 \/ lens = <<>> THEN lens
  ELSE IF n >= lens[1] THEN DropBytes(Tail(lens), n - lens[1])
  ELSE <<lens[1] - n>> \o Tail(lens)

\* ------------------------------------------------------------------ state
VARIABLES cpc, cval, cenc, cdec,
          workload,           \* the requests the clients of this run draw from
          args,               \* the command line: --dir and --dbfilename
          running,            \* main() reached serve_forever
          STATE_dir, STATE_db, STATE_replication,
          now,                \* wall time, unix-millis
          conn,               \* per connection: "new" (not accepted yet), "open" or "closed"
          inbuf,              \* bytes sent by the client and not yet read
          reqlens, consumed, nsent,
          replyFor,           \* per connection, for each reply written, the request it answers
          last,               \* the pass through the loop of client_connected the latest step made
          lastWrite,          \* per key, the SET (or snapshot entry) that wrote it last
          loaded, nset,       \* the items of the snapshot; the number of SETs executed
          rpc, rin, rout, rget \* the snapshot reader on its own: a file, its load, a GET after it

cvars == <<cpc, cval, cenc, cdec>>
svars == <<workload, args, running, STATE_dir, STATE_db, STATE_replication, now, conn, inbuf,
           reqlens, consumed, replyFor, nsent, last, lastWrite, loaded, nset>>
rvars == <<rpc, rin, rout, rget>>
vars == <<cvars, svars, rvars>>

NoFile == [table |-> "len6", entries |-> <<>>]
NoRead == [k |-> PyNone, t |-> 0, h |-> HRes(<<>>, <<>>)]

SnapshotIdle ==
  /\ rpc = "idle"
  /\ rin = NoFile
  /\ rout = DbErr("")
  /\ rget = NoRead

CodecIdle ==
  /\ cpc = "idle"
  /\ cval = RespBulkStringObj(PyNone)
  /\ cenc = <<>>
  /\ cdec = Err("")

NoEvent == [c |-> 0, status |-> "none", err |-> "", verb |-> <<>>, dt |-> RespStringObj(PyNone),
            out |-> <<>>, now |-> 0, obs |-> NoEntry, req |-> 0, partial |-> FALSE, dropped |-> 0]

\* a write to a key: what it stored, and the kind of entry it replaced ("none",
\* "snapshot", "plain" for a SET without PX, "px" for a SET with PX)
Write(value, exp, px, time, src) ==
  [value |-> value, exp |-> exp, px |-> px, time |-> time, src |-> src, over |-> "none"]

KindOf(w) == IF w.src = "snapshot" THEN "snapshot" ELSE IF w.px = PyNone THEN "plain" ELSE "px"

\* main(): the state when the listener starts, for one command line
Startup(a) ==
  LET load == Truthy(a.dir) /\ Truthy(a.dbfilename) /\ a.file # <<>>
      r == IF load THEN RedisDatabase_from_bytes(a.file) ELSE DbRes(<<>>)
  IN /\ running = r.ok
     /\ workload = a.workload
     /\ args = [dir |-> a.dir, dbfilename |-> a.dbfilename]
     /\ STATE_dir = a.dir
     /\ STATE_db = r.items
     /\ STATE_replication = IF a.replicaof THEN Replication("SLAVE", <<>>) ELSE Replication("MASTER", ReplIdA)
     /\ loaded = r.items
     /\ lastWrite = [k \in {r.items[i].key : i \in 1..Len(r.items)} |->
                       LET e == DictGet(r.items, k) IN Write(e.value, e.exp, PyNone, 0, "snapshot")]

ServerInit ==
  /\ \E a \in Startups : Startup(a)
  /\ now = 1
  /\ conn = [c \in Conns |-> "new"]
  /\ inbuf = [c \in Conns |-> <<>>]
  /\ reqlens = [c \in Conns |-> <<>>]
  /\ consumed = [c \in Conns |-> 0]
  /\ replyFor = [c \in Conns |-> <<>>]
  /\ nsent = 0
  /\ last = NoEvent
  /\ nset = 0

Init == ServerInit /\ CodecIdle /\ SnapshotIdle

\* ---------------------------------------------------------------- actions
\* a client writes one request to its socket; connections are numbered in the
\* order start_server accepts them
Send(c, req) ==
  /\ running /\ nsent < MaxReqs
  /\ \/ conn[c] = "open"
     \/ conn[c] = "new" /\ \A d \in Conns : d < c => conn[d] # "new"
  /\ conn' = [conn EXCEPT ![c] = "open"]
  /\ inbuf' = [inbuf EXCEPT ![c] = @ \o req]
  /\ reqlens' = [reqlens EXCEPT ![c] = Append(@, Len(req))]
  /\ nsent' = nsent + 1
  /\ last' = NoEvent
  /\ UNCHANGED <<workload, args, running, STATE_dir, STATE_db, STATE_replication, now,
                 consumed, replyFor, lastWrite, loaded, nset, cvars, rvars>>

Tick ==
  /\ running /\ now < MaxTime
  /\ now' = now + 1
  /\ last' = NoEvent
  /\ UNCHANGED <<workload, args, running, STATE_dir, STATE_db, STATE_replication, conn, inbuf,
                 reqlens, consumed, replyFor, nsent, lastWrite, loaded, nset, cvars, rvars>>

\* the verb the loop looks up for a decoded value, <<>> when there is none
VerbOf(dt) ==
  IF dt.cls = "RespBulkString" /\ dt.value.py = "str" THEN Upper(dt.value.s)
  ELSE IF dt.cls = "RespArray" /\ Len(dt.items) > 0 /\ dt.items[1].cls # "RespArray"
          /\ dt.items[1].value.py = "str" THEN Upper(dt.items[1].value.s)
  ELSE <<>>

\* the write a served SET makes, as its arguments state it
WriteOf(dt, t) ==
  Write(ItemValue(dt, 2),
        IF Len(dt.items) = 3 THEN PyNone ELSE PyInt(t + PyIntOf(ItemValue(dt, 4)).n),
        IF Len(dt.items) = 3 THEN PyNone ELSE PyInt(PyIntOf(ItemValue(dt, 4)).n),
        t, "SET")

\* the task of a connection ends with an exception: nothing is written
Crash(c, e, dt, db, partial) ==
  /\ conn' = [conn EXCEPT ![c] = "closed"]
  /\ inbuf' = [inbuf EXCEPT ![c] = <<>>]
  /\ reqlens' = [reqlens EXCEPT ![c] = <<>>]
  /\ STATE_db' = db
  /\ last' = [NoEvent EXCEPT !.c = c, !.status = "crash", !.err = e, !.dt = dt,
                             !.verb = VerbOf(dt), !.now = now, !.req = consumed[c] + 1,
                             !.partial = partial]
  /\ UNCHANGED <<consumed, replyFor, lastWrite, nset>>

\* one pass through the loop of client_connected: read(512) returns the
\* first n bytes available, one value is decoded at offset 0 and dispatched
Serve(c, n) ==
  /\ running /\ conn[c] = "open"
  /\ n >= 1 /\ n <= Min(ReadSize, Len(inbuf[c]))
  /\ LET data == SubSeq(inbuf[c], 1, n)
         r == decode(data, 0)
         h == Dispatch(r.val, STATE_db, now, STATE_dir, STATE_replication)
         left == DropBytes(reqlens[c], n)
         \* the read ends inside a request
         partial == n \notin Boundaries(reqlens[c], 0)
     IN IF ~r.ok THEN Crash(c, r.err, NoEvent.dt, STATE_db, partial)
        ELSE IF h.err # "" THEN Crash(c, h.err, r.val, h.db, partial)
        ELSE /\ STATE_db' = h.db
             /\ inbuf' = [inbuf EXCEPT ![c] = SubSeq(@, n + 1, Len(@))]
             /\ reqlens' = [reqlens EXCEPT ![c] = left]
             /\ consumed' = [consumed EXCEPT ![c] = @ + Len(reqlens[c]) - Len(left)]
             /\ replyFor' = [replyFor EXCEPT ![c] = IF h.out = <<>> THEN @ ELSE Append(@, consumed[c] + 1)]
             /\ last' = [c |-> c, status |-> IF h.out = <<>> THEN "ignored" ELSE "reply", err |-> "",
                         verb |-> VerbOf(r.val), dt |-> r.val, out |-> h.out, now |-> now,
                         obs |-> h.obs, req |-> consumed[c] + 1, partial |-> partial,
                         \* "dt, _ = decode(data, 0)": the bytes after the value are discarded
                         dropped |-> n - r.off]
             /\ IF VerbOf(r.val) = W_SET
                  THEN /\ lastWrite' = [k \in DOMAIN lastWrite \cup {ItemValue(r.val, 1)} |->
                                          IF k # ItemValue(r.val, 1) THEN lastWrite[k]
                                          ELSE IF k \in DOMAIN lastWrite
                                            THEN [WriteOf(r.val, now) EXCEPT !.over = KindOf(lastWrite[k])]
                                          ELSE WriteOf(r.val, now)]
                       /\ nset' = nset + 1
                  ELSE UNCHANGED <<lastWrite, nset>>
             /\ UNCHANGED conn
  /\ UNCHANGED <<workload, args, running, STATE_dir, STATE_replication, now, nsent, loaded, cvars, rvars>>

\* a client that has nothing more to send closes, with nothing pending:
\* at_eof() ends the loop (or read() returns b'' and decode raises)
EndOfStream(c) ==
  /\ running /\ conn[c] = "open" /\ inbuf[c] = <<>> /\ nsent = MaxReqs
  /\ conn' = [conn EXCEPT ![c] = "closed"]
  /\ last' = NoEvent
  /\ UNCHANGED <<workload, args, running, STATE_dir, STATE_db, STATE_replication, now, inbuf,
                 reqlens, consumed, replyFor, nsent, lastWrite, loaded, nset, cvars, rvars>>

Next ==
  \/ \E c \in Conns : \E req \in RequestsOf(workload) : Send(c, req)
  \/ Tick
  \/ \E c \in Conns : \E n \in ReadSizes(reqlens[c], Len(inbuf[c])) : Serve(c, n)
  \/ \E c \in Conns : EndOfStream(c)

Spec == Init /\ [][Next]_vars

\* The server over a transport that never splits a request: each read returns
\* one or several whole requests.  The event loop resumes the task of a
\* connection whose socket has bytes to read, so a pass through its loop that
\* stays possible is eventually made.
WholeReads(lens, avail) == {n \in ReadSizes(lens, avail) : n \in Boundaries(lens, 0)}

ServeWhole(c) == \E n \in WholeReads(reqlens[c], Len(inbuf[c])) : Serve(c, n)

NextWhole ==
  \/ \E c \in Conns : \E req \in RequestsOf(workload) : Send(c, req)
  \/ Tick
  \/ \E c \in Conns : ServeWhole(c)
  \/ \E c \in Conns : EndOfStream(c)

\* what a pass through the loop of connection c does to its socket: read(512)
\* takes whole requests off the pending bytes (all of them are gone when the
\* task ends with an exception).  Every ServeWhole(c) step is such a step, no
\* other step of NextWhole shortens a socket's pending bytes, and the two are
\* enabled in the same states, so fairness is stated on this action.
ReadTakes(c) ==
  /\ running /\ conn[c] = "open"
  /\ \E n \in WholeReads(reqlens[c], Len(inbuf[c])) :
       \E rest \in {SubSeq(inbuf[c], n + 1, Len(inbuf[c])), <<>>} :
         inbuf' = [inbuf EXCEPT ![c] = rest]

SpecWhole == Init /\ [][NextWhole]_vars /\ \A c \in Conns : WF_inbuf(ReadTakes(c))

\* ------------------------------------------------------------ properties
NullBulk == <<TagBulk, Minus, Zero + 1, CR, LF>>

\* the latest step served a GET request (an array with a key)
IsGet(e) ==
  /\ e.status # "none" /\ e.verb = W_GET
  /\ e.dt.cls = "RespArray" /\ Len(e.dt.items) >= 2 /\ e.dt.items[2].cls = "RespBulkString"

GetKey(e) == ItemValue(e.dt, 1)

\* C1: after an answered SET k v without PX, the next GET k (no SET to k in
\* between) on any connection is answered with BulkString(v)
GetAfterSet ==
  (IsGet(last) /\ GetKey(last) \in DOMAIN lastWrite
     /\ lastWrite[GetKey(last)].src = "SET" /\ lastWrite[GetKey(last)].px = PyNone)
    => (last.status = "reply" /\ last.out = WireBulk(Utf8Encode(lastWrite[GetKey(last)].value.s)))

\* C2: after SET k v PX m at set_time, GET k at t >= set_time + m is answered
\* with the null bulk string and at t < set_time + m with BulkString(v)
GetAfterSetPx ==
  (IsGet(last) /\ GetKey(last) \in DOMAIN lastWrite
     /\ lastWrite[GetKey(last)].src = "SET" /\ lastWrite[GetKey(last)].px # PyNone)
    => LET w == lastWrite[GetKey(last)]
       IN /\ last.status = "reply"
          /\ last.out = IF last.now >= w.time + w.px.n THEN NullBulk
                        ELSE WireBulk(Utf8Encode(w.value.s))

\* C5: on each connection of clients that send well-formed requests, the
\* i-th reply written answers the i-th request sent
RepliesInRequestOrder ==
  workload \in WellFormedWorkloads
    => \A c \in Conns : \A i \in 1..Len(replyFor[c]) : replyFor[c][i] = i

\* C6: every GET k reads the (value, expires_at) pair of the latest write to
\* k, whole, and its reply is the reply for that pair; it finds no entry only
\* when nothing wrote k
NoTornRead ==
  (IsGet(last) /\ last.status = "reply")
    => LET k == GetKey(last)
       IN IF last.obs = NoEntry
            THEN k \notin DOMAIN lastWrite /\ last.out = NullBulk
            ELSE /\ k \in DOMAIN lastWrite
                 /\ last.obs = Entry(k, lastWrite[k].value, lastWrite[k].exp)
                 /\ last.out = IF lastWrite[k].exp # PyNone /\ lastWrite[k].exp.n # 0
                                  /\ lastWrite[k].exp.n < last.now
                                 THEN NullBulk
                                 ELSE RespBulkString_encode(RespBulkStringObj(lastWrite[k].value))

\* C11: SET replaces the whole entry: after SET k v1 PX m then SET k v2, GET k
\* is answered with BulkString(v2) at every later time; after SET k v1 then
\* SET k v2 PX m, GET k is answered with null from the new expiry on
UpsertReplacesExpiry ==
  (IsGet(last) /\ GetKey(last) \in DOMAIN lastWrite /\ lastWrite[GetKey(last)].src = "SET")
    => LET w == lastWrite[GetKey(last)]
       IN /\ (w.over = "px" /\ w.px = PyNone)
               => (last.status = "reply" /\ last.out = WireBulk(Utf8Encode(w.value.s)))
          /\ (w.over = "plain" /\ w.px # PyNone /\ last.now >= w.time + w.px.n)
               => (last.status = "reply" /\ last.out = NullBulk)

\* C12: a well-formed request delivered across more than one read is
\* accumulated: the read that ends inside it neither ends the connection nor
\* discards the bytes it took of it
SplitRequestAccumulated ==
  (workload \in WellFormedWorkloads /\ last.status # "none" /\ last.partial)
    => (last.status # "crash" /\ conn[last.c] = "open" /\ last.dropped = 0)

\* C17: only a served SET changes the key space: every other step (any other
\* command, a failing request, the passing of time) leaves every entry as it
\* was, and no stored key ever disappears
OnlySetMutates ==
  [][/\ STATE_db' # STATE_db => (last'.status = "reply" /\ last'.verb = W_SET)
     /\ \A i \in 1..Len(STATE_db) : HasKey(STATE_db', STATE_db[i].key)]_vars

\* a GET found its key expired, answered null, and the key is still stored
OnlySetMutatesWitness ==
  /\ IsGet(last) /\ last.status = "reply" /\ last.out = NullBulk
  /\ last.obs # NoEntry /\ Expired(last.obs.exp, last.now)
  /\ HasKey(STATE_db, GetKey(last)) /\ DictGet(STATE_db, GetKey(last)) = last.obs

\* the requests connection c has been sent, counted while it is open, and
\* those a reply was written for
Sent(c) == consumed[c] + Len(reqlens[c])
Answered(c) == {replyFor[c][j] : j \in 1..Len(replyFor[c])}

\* the runs each of whose requests is answered when a read delivers it alone
AnsweredAloneWorkloads == {"kv", "snap", "misc"}

\* C18: every complete well-formed request a client has sent on an open
\* connection is eventually answered, also when one read delivers several
EveryRequestAnswered ==
  \A c \in Conns : \A i \in 1..MaxReqs :
    (workload \in AnsweredAloneWorkloads /\ conn[c] = "open" /\ i <= Sent(c)) ~> (i \in Answered(c))

\* C19: a value the loop decoded has one of two outcomes: one reply was written
\* for it and the connection stays open, or the connection's task has ended; no
\* decoded value is passed over with no reply and the connection left open
\* (a pass whose decode raised records no value)
DecodedValueSettled ==
  (last.status # "none" /\ last.dt # NoEvent.dt) =>
    \/ last.status = "reply" /\ last.out # <<>> /\ conn[last.c] = "open"
    \/ last.status = "crash" /\ last.out = <<>> /\ conn[last.c] = "closed"

\* a GET on one connection served after SETs with and without PX
NoTornReadWitness ==
  /\ IsGet(last) /\ last.status = "reply" /\ nset >= 2
  /\ last.obs # NoEntry /\ last.obs.exp = PyNone
  /\ \E c \in Conns : c # last.c /\ replyFor[c] # <<>>

Verbs == {W_PING, W_ECHO, W_SET, W_GET, W_KEYS, W_CONFIG, W_INFO}

\* a decoded request with an unknown verb, or a SET with other than 3 or 5 items
Malformed(e) ==
  /\ e.status # "none" /\ e.dt.cls \in {"RespArray", "RespBulkString"}
  /\ \/ e.verb \notin Verbs
     \/ e.verb = W_SET /\ Len(e.dt.items) \notin {3, 5}

\* C7: a request with an unknown verb or a malformed argument count ends the
\* connection without a reply
MalformedRequestTerminates ==
  Malformed(last) => (last.status = "crash" /\ last.out = <<>> /\ conn[last.c] = "closed")

IsConfigGet(e, name) ==
  /\ e.status # "none" /\ e.verb = W_CONFIG
  /\ e.dt.cls = "RespArray" /\ Len(e.dt.items) = 3
  /\ e.dt.items[2].cls = "RespBulkString" /\ Upper(e.dt.items[2].value.s) = W_GET
  /\ e.dt.items[3] = RespBulkStringObj(PyStr(name))

\* C9: CONFIG GET dir / dbfilename is answered with [name, configured value]
ConfigGetAnswers ==
  /\ (IsConfigGet(last, W_dir) /\ args.dir # PyNone)
       => (last.status = "reply" /\ last.out = WireArray(<<W_dir, Utf8Encode(args.dir.s)>>))
  /\ (IsConfigGet(last, W_dbfilename) /\ args.dbfilename # PyNone)
       => (last.status = "reply" /\ last.out = WireArray(<<W_dbfilename, Utf8Encode(args.dbfilename.s)>>))

\* the keys of the loaded snapshot that are not expired at time t; an entry
\* counts as expired only when its expiry lies before t
LiveSnapshotKeys(t) ==
  {loaded[i].key.s : i \in {j \in 1..Len(loaded) : ~(loaded[j].exp.n # 0 /\ t > loaded[j].exp.n)}}

Orderings(S) == {f \in [1..Cardinality(S) -> S] : \A i, j \in 1..Cardinality(S) : f[i] = f[j] => i = j}

\* C10: before any SET, KEYS * lists every non-expired key of the snapshot
\* once and no expired one
KeysListsLiveSnapshotKeys ==
  (last.status # "none" /\ last.verb = W_KEYS /\ nset = 0 /\ loaded # <<>>)
    => /\ last.status = "reply"
       /\ \E f \in Orderings(LiveSnapshotKeys(last.now)) :
            last.out = WireArray([i \in 1..Len(f) |-> Utf8Encode(f[i])])

\* ------------------------------------------------------------ codec spec
InitCodec ==
  /\ cpc = "value"
  /\ cval \in RespValues
  /\ cenc = <<>>
  /\ cdec = Err("")
  /\ ServerInit
  /\ SnapshotIdle

DoEncode ==
  /\ cpc = "value"
  /\ cenc' = encode(cval)
  /\ cpc' = "encoded"
  /\ UNCHANGED <<cval, cdec, svars, rvars>>

DoDecode ==
  /\ cpc = "encoded"
  /\ cdec' = decode(cenc, 0)
  /\ cpc' = "decoded"
  /\ UNCHANGED <<cval, cenc, svars, rvars>>

NextCodec == DoEncode \/ DoDecode

SpecCodec == InitCodec /\ [][NextCodec]_vars

\* C3: decode(encode(v), 0) = (v, len(encode(v))) for every RESP value v
RoundTrip ==
  cpc = "decoded" => cdec.ok /\ cdec.val = cval /\ cdec.off = Len(cenc)

\* the number on the length line of the frame b, and the offset after that line
DeclaredSize(b) == ParseInt(Utf8Decode(_parse_chunk(b, 1).b).s).n
AfterSizeLine(b) == _parse_chunk(b, 1).off

\* C13: a BulkString with declared length n >= 0 decodes to exactly the n
\* bytes after the length line, whatever they hold, and the offset returned is
\* just after the CRLF that follows them; an Array with declared count c
\* decodes to exactly c elements
DeclaredLengthGoverns ==
  (cpc = "decoded" /\ cenc # <<>>)
    => /\ (cenc[1] = TagBulk /\ DeclaredSize(cenc) >= 0)
            => /\ cdec.ok /\ cdec.val.cls = "RespBulkString" /\ cdec.val.value.py = "str"
               /\ Utf8Encode(cdec.val.value.s)
                    = SubSeq(cenc, AfterSizeLine(cenc) + 1, AfterSizeLine(cenc) + DeclaredSize(cenc))
               /\ cdec.off = AfterSizeLine(cenc) + DeclaredSize(cenc) + 2
       /\ cenc[1] = TagArray
            => (cdec.ok /\ cdec.val.cls = "RespArray" /\ Len(cdec.val.items) = DeclaredSize(cenc))

\* --------------------------------------------------------- snapshot spec
InitSnapshot ==
  /\ rpc = "file"
  /\ rin \in SnapFiles
  /\ rout = DbErr("")
  /\ rget = NoRead
  /\ ServerInit
  /\ CodecIdle

\* main(): STATE.db = RedisDatabase.from_bytes(args.dbfilename, data)
DoLoad ==
  /\ rpc = "file"
  /\ rout' = RedisDatabase_from_bytes(RdbFile(rin))
  /\ rpc' = "loaded"
  /\ UNCHANGED <<rin, rget, svars, cvars>>

\* GET k served at time t on the loaded key space
DoGet(k, t) ==
  /\ rpc = "loaded" /\ rout.ok
  /\ rget' = [k |-> k, t |-> t,
              h |-> get_cmd(RespArrayObj(<<RespBulkStringObj(PyStr(W_GET)), RespBulkStringObj(k)>>),
                            rout.items, t)]
  /\ rpc' = "read"
  /\ UNCHANGED <<rin, rout, svars, cvars>>

NextSnapshot ==
  \/ DoLoad
  \/ \E i \in 1..Len(rin.entries) : \E t \in GetTimes :
       DoGet(PyStr(Utf8Decode(rin.entries[i].key.s).s), t)

SpecSnapshot == InitSnapshot /\ [][NextSnapshot]_vars

\* the entry of the file with key text k
FileEntry(k) == rin.entries[CHOOSE i \in 1..Len(rin.entries) : PyStr(Utf8Decode(rin.entries[i].key.s).s) = k]

\* the expiry an entry states, unix-millis
StatedExpiry(e) == IF e.marker = OpExpireSec THEN 1000 * e.ts ELSE e.ts

\* C14: after a load, GET answers an entry without expiry marker with its value
\* at every time, and an entry with marker 0xFC (millis) or 0xFD (seconds,
\* times 1000) with null at every time at or after that expiry, whatever the
\* timestamp value, and with its value before
SnapshotExpiryApplied ==
  rpc = "read"
    => LET e == FileEntry(rget.k)
       IN /\ rget.h.err = ""
          /\ rget.h.out = IF e.marker # 0 /\ rget.t >= StatedExpiry(e) THEN NullBulk
                          ELSE WireBulk(Utf8Encode(DictGet(rout.items, rget.k).value.s))

LengthForms == {"len6", "len14", "len32"}

\* C15: a snapshot whose table size, keys and values are written in the 6-bit,
\* 14-bit or 32-bit size form loads, with every key and value of the length
\* written
SizeFormsLoad ==
  (rpc = "loaded" /\ \A i \in 1..Len(rin.entries) :
                       rin.entries[i].key.form \in LengthForms /\ rin.entries[i].value.form \in LengthForms)
    => /\ rout.ok
       /\ Len(rout.items) = Len(rin.entries)
       /\ \A i \in 1..Len(rin.entries) :
            /\ rout.items[i].key = PyStr(Utf8Decode(rin.entries[i].key.s).s)
            /\ rout.items[i].value = PyStr(Utf8Decode(rin.entries[i].value.s).s)

\* the w-byte two's complement reading of n
Signed(n, w) ==
  CASE w = 1 -> IF n >= 128 THEN n - 256 ELSE n
    [] w = 2 -> IF n >= 32768 THEN n - 65536 ELSE n
    [] OTHER -> n

\* C16: a value written with special encoding 0xC0, 0xC1 or 0xC2 loads as the
\* decimal text of the signed 1-, 2- or 4-byte little-endian integer, in a
\* file whose sizes are all in the 6-bit form
SpecialIntsSigned ==
  (rpc = "loaded" /\ rin.table = "len6"
     /\ \A i \in 1..Len(rin.entries) : rin.entries[i].key.form = "len6" /\ rin.entries[i].value.form = "int")
    => /\ rout.ok
       /\ Len(rout.items) = Len(rin.entries)
       /\ \A i \in 1..Len(rin.entries) :
            rout.items[i].value = PyStr(IntToStr(Signed(rin.entries[i].value.n, rin.entries[i].value.w)))

\* C4: encode(BulkString(b)) is '$' len(b) CRLF b CRLF for every non-null b
BulkEncodingLengthPrefixed ==
  (cpc = "encoded" /\ cval.cls = "RespBulkString" /\ cval.value.py = "str")
    => cenc = WireBulk(Utf8Encode(cval.value.s))
====
